---- MODULE Spec2Model ----
(***************************************************************************)
(* FlaskDiarization: the task orchestration pipeline.                      *)
(*                                                                         *)
(* TranscriberAggregator.process_task drives one task through              *)
(* transcription, diarization, summarization and finalization, writing     *)
(* the task's status and artifacts to the Task Store (DatabaseService)     *)
(* through TaskManager.update_task_status and the store's save/get calls.  *)
(*                                                                         *)
(* The model follows one task id.  Every call into a gateway or into the   *)
(* store is one step; its outcome (returns / raises) is chosen by the      *)
(* environment.  Invocations of process_task on the task follow one        *)
(* another (up to MaxRuns of them).                                        *)
(*                                                                         *)
(* Spec and LiveSpec follow that invocation.  UploadSpec is app.upload_file *)
(* and the thread it starts per upload; ThreadsSpec is several threads      *)
(* running process_task on the shared TranscriberService; StoreSpec is the  *)
(* store's operations called directly for one task id.                      *)
(* SavesSpec is the three artifact saves called for two task ids.           *)
(* ChunkerSpec and CompilerSpec call _split_transcript and                  *)
(* _compile_final_report on their own: a text is the sequence of its       *)
(* characters, a report the sequence of the parts appended to it.           *)
(* FormatSpec calls the two time formatters on a time in tenths of a       *)
(* second; TasksSpec is the tasks table written for two task ids.          *)
(***************************************************************************)
EXTENDS Integers, Sequences, FiniteSets, TLC

(* ------------------------------ bounds -------------------------------- *)

\* number of process_task invocations on the task
MaxRuns == 2
\* number of calls into a gateway or the store that fail, over all invocations
MaxFaults == 2

(* ------------------------- program constants -------------------------- *)

\* default of _split_transcript's max_chunk_size
max_chunk_size == 5000

\* TaskStatus values, in declaration order
PENDING      == "pending"
TRANSCRIBING == "transcribing"
TRANSCRIBED  == "transcribed"
SUMMARIZING  == "summarizing"
SUMMARIZED   == "summarized"
FINALIZING   == "finalizing"
COMPLETED    == "completed"
FAILED       == "failed"

TaskStatus ==
    << PENDING, TRANSCRIBING, TRANSCRIBED, SUMMARIZING, SUMMARIZED,
       FINALIZING, COMPLETED, FAILED >>

\* TaskStatus.is_final
is_final(status) == status \in {COMPLETED, FAILED}

(* ----------------------------- inputs --------------------------------- *)

\* What transcriber_service.transcribe may return: the segments, each held as
\* the length (in characters, without the closing ".") of its text.  Each
\* segment text is one sentence ending in ".".  No segment gives the empty
\* transcript; two segments of 2600 give a transcript split in two chunks;
\* one of 6000 gives a sentence longer than max_chunk_size.
Results == { <<>>, <<2600, 2600>>, <<6000>> }

(* ------------------------------ state --------------------------------- *)

VARIABLES
    \* Task Store, the rows of the one task id followed
    task,                   \* tasks row: [exists, status, created_at,
                            \*   updated_at, file_path, options]
    transcriptions,         \* <<>> or <<transcript>>
    transcription_details,  \* <<>> or <<details>>
    diarization_results,    \* <<>> or <<result>>
    summary_chunks,         \* sequence of [index, summary], in insertion order
    final_report,           \* <<>> or <<report>>
    audio_file,             \* whether the source media file is on disk
    \* the process_task invocation
    pc,                     \* position in _process_task_workflow
    result,                 \* "none" | "true" | "false" | "raised"
    runs,                   \* invocations started so far
    tr_result,              \* _run_transcriber: result
    d_details,              \* _run_diarization: transcription_details
    di_result,              \* _run_diarization: result_with_speakers
    transcript,             \* _process_task_workflow: transcript
    chunks,                 \* _run_summarization: chunks
    i,                      \* _run_summarization: loop index
    summary,                \* _run_summarization: summary
    found_chunks,           \* _run_finalization: summary_chunks
    f_diarization,          \* _run_finalization: diarization_result
    f_details,              \* _run_finalization: transcription_details
    \* observation of the current invocation
    hist,                   \* statuses the task row held, in order
    calls,                  \* gateway calls made and artifacts written, in order
    faults,                 \* call sites that raised
    fault_count,            \* calls that failed so far, over all invocations
    last_update,            \* the last update_task_status call
    \* the store's summaries table, rows of the task id followed
    summaries,              \* sequence of summary rows, in insertion order
    \* the application: the threads upload_file started, over all task ids
    threads,                \* sequence of [task, pc]: a thread running process_task
    self_model,             \* TranscriberService.model of the one shared service
    statuses,               \* tasks table: the status of task id k, for every id
    \* a helper of the aggregator called on its own
    args,                   \* the arguments of the call
    returned,               \* <<>> or <<the value returned>>
    \* the store's tables beyond the task id followed
    other_rows,             \* the rows of a second task id, by table
    last_save               \* the last save of an artifact: table, id, value

store_vars == << task, transcriptions, transcription_details, diarization_results,
                 summary_chunks, final_report >>
local_vars == << tr_result, d_details, di_result, transcript, chunks, i, summary,
                 found_chunks, f_diarization, f_details >>
vars == << task, transcriptions, transcription_details, diarization_results,
           summary_chunks, final_report, audio_file, pc, result, runs,
           tr_result, d_details, di_result, transcript, chunks, i, summary,
           found_chunks, f_diarization, f_details,
           hist, calls, faults, fault_count, last_update,
           summaries, threads, self_model, statuses,
           args, returned, other_rows, last_save >>

\* the variables of a helper called on its own and of the second task id
apart_vars == << args, returned, other_rows, last_save >>

\* what the invocation followed never touches: the summaries table (the
\* workflow writes summary chunks and the final report instead) and the
\* application's other threads
outside_vars == << summaries, threads, self_model, statuses, apart_vars >>


(* ------------------------- Task Store operations ---------------------- *)

NoTask == [exists |-> FALSE, status |-> "none", created_at |-> 0,
           updated_at |-> 0, file_path |-> "None", options |-> "None"]

\* update_task_status writing the whole row as save_task does, with the
\* defaults of file_path and options
update_as_save_task(row, status, now) ==
    IF row.exists
    THEN [row EXCEPT !.status = status, !.updated_at = now,
                     !.file_path = "None", !.options = "None"]
    ELSE row

\* DatabaseService.save_task(task_id, status, file_path, options): the row
\* after the UPDATE of an existing row or the INSERT of a new one
save_task(row, status, file_path, options, now) ==
    IF row.exists
    THEN [row EXCEPT !.status = status, !.updated_at = now,
                     !.file_path = file_path, !.options = options]
    ELSE [exists |-> TRUE, status |-> status, created_at |-> now,
          updated_at |-> now, file_path |-> file_path, options |-> options]

\* update_task_status without conn.commit(): the row stays as it was
update_not_committed(row, status, now) == row

\* update_task_status with updated_at left out of the SET clause
update_status_only(row, status, now) ==
    IF row.exists THEN [row EXCEPT !.status = status] ELSE row

\* DatabaseService.update_task_status: UPDATE tasks SET status, updated_at
\* WHERE task_id; the row after the statement
update_task_status(row, status, now) ==
    IF row.exists
    THEN [row EXCEPT !.status = status, !.updated_at = now]
    ELSE row

\* DatabaseService.update_task_status: cursor.rowcount > 0
update_rowcount(row) == row.exists

\* DatabaseService.get_task: fetchone(), None when there is no row
get_task(row) == IF row.exists THEN <<row>> ELSE <<>>

\* a plain INSERT into a table without a key: one more row
insert_appending(table, value) == Append(table, value)

\* DatabaseService.save_transcription / save_transcription_details /
\* save_diarization_result: INSERT OR REPLACE keyed by task_id
insert_or_replace(table, value) == <<value>>

\* the store's save_summary_chunk(task_id, index, summary): one more chunk
save_summary_chunk(table, index, text) ==
    Append(table, [index |-> index, summary |-> text])

RECURSIVE ChunksFrom(_, _, _)
ChunksFrom(table, index, last) ==
    IF index > last THEN <<>>
    ELSE LET HasIndex(c) == c.index = index
         IN  SelectSeq(table, HasIndex) \o ChunksFrom(table, index + 1, last)

\* the store's get_summary_chunks(task_id): the task's chunks ordered by index
get_summary_chunks(table) ==
    IF table = <<>> THEN <<>>
    ELSE LET last == CHOOSE n \in {table[k].index : k \in 1..Len(table)} :
                         \A k \in 1..Len(table) : table[k].index <= n
         IN  ChunksFrom(table, 0, last)

\* the store's save_final_report(task_id, report): last write wins
save_final_report(table, report) == <<report>>

(* --------------------------- pure functions --------------------------- *)

\* _run_transcriber, lines 127-129: every segment's text followed by " ".
\* A text is held as the lengths of its pieces between ". " delimiters (what
\* transcript.split('. ') returns): segment texts "s1." "s2." give
\* "s1. s2. ", whose pieces are s1, s2 and a final empty piece.
full_transcript(segments) == Append(segments, 0)

RECURSIVE SumLen(_)
SumLen(sentences) ==
    IF sentences = <<>> THEN 0 ELSE Head(sentences) + SumLen(Tail(sentences))

\* len(transcript) of a text held as its pieces
TextLen(sentences) == SumLen(sentences) + 2 * (Len(sentences) - 1)

RECURSIVE SplitLoop(_, _, _, _, _, _)
\* _split_transcript, lines 257-267: the loop over the sentences; a chunk is
\* the sequence of positions of the sentences it holds
SplitLoop(sentences, k, out, current_chunk, current_len, limit) ==
    IF k > Len(sentences)
    THEN IF current_len > 0 THEN Append(out, current_chunk) ELSE out
    ELSE IF current_len + sentences[k] + 2 <= limit
         THEN SplitLoop(sentences, k + 1, out, Append(current_chunk, k),
                        current_len + sentences[k] + 2, limit)
         ELSE SplitLoop(sentences, k + 1, Append(out, current_chunk), <<k>>,
                        sentences[k] + 2, limit)

\* _split_transcript(transcript, max_chunk_size)
_split_transcript(sentences, limit) ==
    IF TextLen(sentences) <= limit
    THEN << [k \in 1..Len(sentences) |-> k] >>
    ELSE SplitLoop(sentences, 1, <<>>, <<>>, 0, limit)

\* summary_service.create_summary(chunk): the summary of a chunk
create_summary(chunk) == [of |-> chunk]

\* _compile_final_report: the summaries in the order given and, when
\* transcription details are there, the transcript section
_compile_final_report(found, diarization_result, details) ==
    [ summaries  |-> [k \in 1..Len(found) |-> found[k].summary],
      transcript |-> details ]


(* ------------------------------- Init --------------------------------- *)

NoUpdate == [req |-> "none", pre |-> NoTask, post |-> NoTask, ret |-> FALSE]

\* no helper is called on its own, no second task id has a row
NoRows == [task |-> NoTask, transcriptions |-> <<>>,
           transcription_details |-> <<>>, diarization_results |-> <<>>]
NoSave == [table |-> "none", id |-> 0, value |-> <<>>, had |-> FALSE]
Apart ==
    /\ args = <<>>
    /\ returned = <<>>
    /\ other_rows = NoRows
    /\ last_save = NoSave

\* The store after TaskManager.create_task saved the task (PENDING, file on
\* disk, no artifact), or a store that has no row for the task id.
Init ==
    /\ task \in {save_task(NoTask, PENDING, "upload", "options", 0), NoTask}
    /\ transcriptions = <<>>
    /\ transcription_details = <<>>
    /\ diarization_results = <<>>
    /\ summary_chunks = <<>>
    /\ final_report = <<>>
    /\ audio_file = task.exists
    /\ pc = "idle"
    /\ result = "none"
    /\ runs = 0
    /\ tr_result = <<>>
    /\ d_details = <<>>
    /\ di_result = <<>>
    /\ transcript = <<>>
    /\ chunks = <<>>
    /\ i = 0
    /\ summary = <<>>
    /\ found_chunks = <<>>
    /\ f_diarization = <<>>
    /\ f_details = <<>>
    /\ hist = <<>>
    /\ calls = <<>>
    /\ faults = {}
    /\ fault_count = 0
    /\ last_update = NoUpdate
    /\ summaries = <<>>
    /\ threads = <<>>
    /\ self_model = "none"
    /\ statuses = <<>>
    /\ Apart

(* ------------------------------ helpers ------------------------------- *)

\* a call returns or raises
Outcomes == {"ok", "raise"}

\* the call made at `site` fails
Fault(site) ==
    /\ fault_count < MaxFaults
    /\ faults' = faults \cup {site}
    /\ fault_count' = fault_count + 1

\* the call returns
NoFault == UNCHANGED << faults, fault_count >>

\* the invocation's calls, with one more
Call(op, arg) == Append(calls, [op |-> op, arg |-> arg])

\* datetime.now().isoformat() of a write to the tasks row
now == task.updated_at + 1

\* the statuses the task row held during the invocation
Observe(row) == IF row.exists THEN Append(hist, row.status) ELSE hist

\* TaskManager.update_task_status(task_id, status) called at `site`: the
\* store call returns (control goes to `next`) or raises (to `handler`)
StatusUpdate(site, status, next, handler) ==
    \E o \in Outcomes :
        IF o = "ok"
        THEN /\ task' = update_task_status(task, status, now)
             /\ hist' = Observe(task')
             /\ last_update' = [req |-> status, pre |-> task, post |-> task',
                                ret |-> update_rowcount(task)]
             /\ pc' = next
             /\ NoFault
        ELSE /\ Fault(site)
             /\ pc' = handler
             /\ UNCHANGED << task, hist, last_update >>

(* ------------------------- process_task --------------------------------*)

\* process_task(task_id) is invoked
Begin ==
    /\ pc \in {"idle", "done"}
    /\ runs < MaxRuns
    /\ runs' = runs + 1
    /\ pc' = "get_task"
    /\ result' = "none"
    /\ tr_result' = <<>>
    /\ d_details' = <<>>
    /\ di_result' = <<>>
    /\ transcript' = <<>>
    /\ chunks' = <<>>
    /\ i' = 0
    /\ summary' = <<>>
    /\ found_chunks' = <<>>
    /\ f_diarization' = <<>>
    /\ f_details' = <<>>
    /\ hist' = IF task.exists THEN <<task.status>> ELSE <<>>
    /\ calls' = <<>>
    /\ faults' = {}
    /\ last_update' = NoUpdate
    /\ UNCHANGED << store_vars, audio_file, fault_count, outside_vars >>

\* the workflow driven out of order: after the lookup it calls
\* _run_summarization(task_id, '') without having run the transcriber stage
GetTask_then_summarization ==
    /\ pc = "get_task"
    /\ \E o \in Outcomes :
          IF o = "ok"
          THEN IF get_task(task) = <<>>
               THEN pc' = "ret_false" /\ NoFault /\ UNCHANGED transcript
               ELSE pc' = "upd_summarizing" /\ NoFault /\ transcript' = << <<0>> >>
          ELSE pc' = "handler" /\ Fault("get_task") /\ UNCHANGED transcript
    /\ UNCHANGED << store_vars, audio_file, result, runs, tr_result, d_details,
                    di_result, chunks, i, summary, found_chunks, f_diarization,
                    f_details, hist, calls, last_update, outside_vars >>

\* the workflow without the check of lines 66-68: it goes on to the
\* transcriber stage whether or not a task was found
GetTask_ignores_missing ==
    /\ pc = "get_task"
    /\ \E o \in Outcomes :
          IF o = "ok"
          THEN pc' = "upd_transcribing" /\ NoFault
          ELSE pc' = "handler" /\ Fault("get_task")
    /\ UNCHANGED << store_vars, audio_file, result, runs, local_vars, hist,
                    calls, last_update, outside_vars >>

\* lines 66-69: task = self.db.get_task(task_id); not found returns False
GetTask ==
    /\ pc = "get_task"
    /\ \E o \in Outcomes :
          IF o = "ok"
          THEN IF get_task(task) = <<>>
               THEN pc' = "ret_false" /\ NoFault
               ELSE pc' = "upd_transcribing" /\ NoFault
          ELSE pc' = "handler" /\ Fault("get_task")
    /\ UNCHANGED << store_vars, audio_file, result, runs, local_vars, hist,
                    calls, last_update, outside_vars >>


\* what a status update leaves alone
update_frame == << transcriptions, transcription_details, diarization_results,
                   summary_chunks, final_report, audio_file, result, runs,
                   local_vars, calls, outside_vars >>

\* what a gateway call leaves alone, besides the locals it assigns
gateway_frame == << store_vars, audio_file, result, runs, hist, last_update,
                    outside_vars >>

\* what a store read or write leaves alone, besides the table and the locals
store_frame == << audio_file, result, runs, hist, last_update, outside_vars >>

(* ------------------------- _run_transcriber --------------------------- *)

\* line 114: update_task_status(task_id, TaskStatus.TRANSCRIBING), before the try
UpdTranscribing ==
    /\ pc = "upd_transcribing"
    /\ StatusUpdate("upd_transcribing", TRANSCRIBING, "transcribe", "handler")
    /\ UNCHANGED update_frame

\* lines 120-124: result = self.transcriber_service.transcribe(...)
Transcribe ==
    /\ pc = "transcribe"
    /\ calls' = Call("transcribe", 0)
    /\ \E o \in Outcomes :
          IF o = "ok"
          THEN /\ \E r \in Results : tr_result' = r
               /\ pc' = "save_transcription"
               /\ NoFault
          ELSE /\ Fault("transcribe")
               /\ pc' = "tr_handler"
               /\ UNCHANGED tr_result
    /\ UNCHANGED << gateway_frame, d_details, di_result, transcript, chunks, i,
                    summary, found_chunks, f_diarization, f_details >>

\* lines 126-131: self.db.save_transcription(task_id, full_transcript)
SaveTranscription ==
    /\ pc = "save_transcription"
    /\ \E o \in Outcomes :
          IF o = "ok"
          THEN /\ transcriptions' =
                     insert_or_replace(transcriptions, full_transcript(tr_result))
               /\ calls' = Call("save_transcription", 0)
               /\ pc' = "save_details"
               /\ NoFault
          ELSE /\ Fault("save_transcription")
               /\ pc' = "tr_handler"
               /\ UNCHANGED << transcriptions, calls >>
    /\ UNCHANGED << task, transcription_details, diarization_results, summary_chunks,
                    final_report, store_frame, local_vars >>

\* _run_transcriber going on to the TRANSCRIBED update when the save of the
\* details raised
SaveTranscriptionDetails_failure_ignored ==
    /\ pc = "save_details"
    /\ \E o \in Outcomes :
          IF o = "ok"
          THEN /\ transcription_details' =
                     insert_or_replace(transcription_details, tr_result)
               /\ calls' = Call("save_transcription_details", 0)
               /\ pc' = "upd_transcribed"
               /\ NoFault
          ELSE /\ Fault("save_details")
               /\ pc' = "upd_transcribed"
               /\ UNCHANGED << transcription_details, calls >>
    /\ UNCHANGED << task, transcriptions, diarization_results, summary_chunks,
                    final_report, store_frame, local_vars >>

\* line 133: self.db.save_transcription_details(task_id, result)
SaveTranscriptionDetails ==
    /\ pc = "save_details"
    /\ \E o \in Outcomes :
          IF o = "ok"
          THEN /\ transcription_details' =
                     insert_or_replace(transcription_details, tr_result)
               /\ calls' = Call("save_transcription_details", 0)
               /\ pc' = "upd_transcribed"
               /\ NoFault
          ELSE /\ Fault("save_details")
               /\ pc' = "tr_handler"
               /\ UNCHANGED << transcription_details, calls >>
    /\ UNCHANGED << task, transcriptions, diarization_results, summary_chunks,
                    final_report, store_frame, local_vars >>

\* line 135: update_task_status(task_id, TaskStatus.TRANSCRIBED), inside the try
UpdTranscribed ==
    /\ pc = "upd_transcribed"
    /\ StatusUpdate("upd_transcribed", TRANSCRIBED, "cleanup1", "tr_handler")
    /\ UNCHANGED update_frame

\* lines 138-141: except: update_task_status(task_id, TaskStatus.FAILED); raise
TranscriberHandler ==
    /\ pc = "tr_handler"
    /\ StatusUpdate("tr_handler", FAILED, "handler", "handler")
    /\ UNCHANGED update_frame

(* ----------------- transcriber_service.cleanup() ---------------------- *)

\* lines 74 and 79: self.transcriber_service.cleanup(), inside the outer try only
Cleanup(at, next) ==
    /\ pc = at
    /\ calls' = Call("cleanup", 0)
    /\ \E o \in Outcomes :
          IF o = "ok"
          THEN pc' = next /\ NoFault
          ELSE pc' = "handler" /\ Fault(at)
    /\ UNCHANGED << gateway_frame, local_vars >>

\* the workflow without the cleanup() call of line 79
CleanupAfterDiarization_omitted ==
    /\ pc = "cleanup2"
    /\ pc' = "cleanup_audio"
    /\ UNCHANGED << gateway_frame, local_vars, calls, faults, fault_count >>

CleanupAfterTranscriber == Cleanup("cleanup1", "d_get_details")

CleanupAfterDiarization == Cleanup("cleanup2", "cleanup_audio")


(* -------------------------- _run_diarization -------------------------- *)

\* DatabaseService.get_transcription_details: the details, None without a row
get_transcription_details(table) == table

\* lines 155-158: transcription_details = self.db.get_transcription_details();
\* none found: return.  An exception is caught at line 171 and only logged.
DiarizationGetDetails ==
    /\ pc = "d_get_details"
    /\ \E o \in Outcomes :
          IF o = "ok"
          THEN /\ d_details' = get_transcription_details(transcription_details)
               /\ pc' = IF d_details' = <<>> THEN "cleanup2" ELSE "diarize"
               /\ NoFault
          ELSE /\ Fault("d_get_details")
               /\ pc' = "cleanup2"
               /\ UNCHANGED d_details
    /\ UNCHANGED << store_vars, store_frame, calls, tr_result, di_result, transcript,
                    chunks, i, summary, found_chunks, f_diarization, f_details >>

\* what the diarization gateway returns: the segments with their speakers, or
\* (TranscriberService.diarize, lines 146-148) its input when it failed inside
DiarizeOutcomes == {"ok", "unlabelled", "raise"}

\* _run_diarization with the gateway call outside its try: a raise reaches
\* the workflow's handler
Diarize_uncaught ==
    /\ pc = "diarize"
    /\ calls' = Call("diarize", 0)
    /\ \E o \in DiarizeOutcomes :
          IF o = "raise"
          THEN /\ Fault("diarize")
               /\ pc' = "handler"
               /\ UNCHANGED di_result
          ELSE /\ di_result' = << [segments |-> d_details[1], speakers |-> (o = "ok")] >>
               /\ pc' = "save_diarization"
               /\ NoFault
    /\ UNCHANGED << gateway_frame, tr_result, d_details, transcript, chunks, i,
                    summary, found_chunks, f_diarization, f_details >>

\* _run_diarization marking the task FAILED when the gateway raises, as the
\* other stages do, before the workflow goes on
Diarize_marks_failed ==
    /\ pc = "diarize"
    /\ calls' = Call("diarize", 0)
    /\ \E o \in DiarizeOutcomes :
          IF o = "raise"
          THEN /\ Fault("diarize")
               /\ task' = update_task_status(task, FAILED, now)
               /\ hist' = Observe(task')
               /\ last_update' = [req |-> FAILED, pre |-> task, post |-> task',
                                  ret |-> update_rowcount(task)]
               /\ pc' = "cleanup2"
               /\ UNCHANGED di_result
          ELSE /\ di_result' = << [segments |-> d_details[1], speakers |-> (o = "ok")] >>
               /\ pc' = "save_diarization"
               /\ NoFault
               /\ UNCHANGED << task, hist, last_update >>
    /\ UNCHANGED << transcriptions, transcription_details, diarization_results,
                    summary_chunks, final_report, audio_file, result, runs,
                    outside_vars, tr_result, d_details, transcript, chunks, i,
                    summary, found_chunks, f_diarization, f_details >>

\* lines 160-164: result_with_speakers = self.transcriber_service.diarize(...)
Diarize ==
    /\ pc = "diarize"
    /\ calls' = Call("diarize", 0)
    /\ \E o \in DiarizeOutcomes :
          IF o = "raise"
          THEN /\ Fault("diarize")
               /\ pc' = "cleanup2"
               /\ UNCHANGED di_result
          ELSE /\ di_result' = << [segments |-> d_details[1], speakers |-> (o = "ok")] >>
               /\ pc' = "save_diarization"
               /\ NoFault
    /\ UNCHANGED << gateway_frame, tr_result, d_details, transcript, chunks, i,
                    summary, found_chunks, f_diarization, f_details >>

\* line 167: self.db.save_diarization_result(task_id, result_with_speakers)
SaveDiarization ==
    /\ pc = "save_diarization"
    /\ \E o \in Outcomes :
          IF o = "ok"
          THEN /\ diarization_results' =
                     insert_or_replace(diarization_results, di_result[1])
               /\ calls' = Call("save_diarization_result", 0)
               /\ NoFault
          ELSE /\ Fault("save_diarization")
               /\ UNCHANGED << diarization_results, calls >>
    /\ pc' = "cleanup2"
    /\ UNCHANGED << task, transcriptions, transcription_details, summary_chunks,
                    final_report, store_frame, local_vars >>

(* ------------------------ _cleanup_audio_file ------------------------- *)

\* lines 368-375: os.remove(file_path) when the file exists; a failure is logged
CleanupAudioFile ==
    /\ pc = "cleanup_audio"
    /\ IF audio_file
       THEN \E o \in Outcomes :
               IF o = "ok"
               THEN audio_file' = FALSE /\ NoFault
               ELSE Fault("remove") /\ UNCHANGED audio_file
       ELSE UNCHANGED audio_file /\ NoFault
    /\ pc' = "get_transcription"
    /\ UNCHANGED << store_vars, result, runs, local_vars, hist, calls,
                    last_update, outside_vars >>

(* ------------------- _process_task_workflow, step 3 ------------------- *)

\* DatabaseService.get_transcription: the row, None without one
get_transcription(table) == table

\* lines 83-87: transcript = self.db.get_transcription(task_id); if not
\* transcript: update_task_status(task_id, TaskStatus.FAILED); return False.
\* The transcriber stage returns only after save_transcription did, so the
\* row is there whenever this line is reached.
GetTranscription ==
    /\ pc = "get_transcription"
    /\ \E o \in Outcomes :
          IF o = "ok"
          THEN /\ transcript' = get_transcription(transcriptions)
               /\ IF transcript' = <<>>
                  THEN StatusUpdate("upd_failed_missing", FAILED, "ret_false", "handler")
                  ELSE /\ pc' = "upd_summarizing"
                       /\ NoFault
                       /\ UNCHANGED << task, hist, last_update >>
          ELSE /\ Fault("get_transcription")
               /\ pc' = "handler"
               /\ UNCHANGED << transcript, task, hist, last_update >>
    /\ UNCHANGED << transcriptions, transcription_details, diarization_results,
                    summary_chunks, final_report, audio_file, result, runs, calls,
                    tr_result, d_details, di_result, chunks, i, summary,
                    found_chunks, f_diarization, f_details, outside_vars >>


(* ------------------------- _run_summarization ------------------------- *)

\* _run_summarization without its SUMMARIZING update
UpdSummarizing_omitted ==
    /\ pc = "upd_summarizing"
    /\ pc' = "split"
    /\ UNCHANGED << task, hist, last_update, faults, fault_count, update_frame >>

\* line 185: update_task_status(task_id, TaskStatus.SUMMARIZING), before the try
UpdSummarizing ==
    /\ pc = "upd_summarizing"
    /\ StatusUpdate("upd_summarizing", SUMMARIZING, "split", "handler")
    /\ UNCHANGED update_frame

\* line 189: chunks = self._split_transcript(transcript)
SplitTranscript ==
    /\ pc = "split"
    /\ chunks' = _split_transcript(transcript[1], max_chunk_size)
    /\ i' = 0
    /\ pc' = IF chunks' = <<>> THEN "upd_summarized" ELSE "summarize"
    /\ UNCHANGED << store_vars, store_frame, calls, faults, fault_count, tr_result, d_details,
                    di_result, transcript, summary, found_chunks, f_diarization,
                    f_details >>

\* line 193: summary = self.summary_service.create_summary(chunk)
Summarize ==
    /\ pc = "summarize"
    /\ calls' = Call("summarize", i)
    /\ \E o \in Outcomes :
          IF o = "ok"
          THEN /\ summary' = << create_summary(chunks[i + 1]) >>
               /\ pc' = "save_chunk"
               /\ NoFault
          ELSE /\ Fault("summarize")
               /\ pc' = "su_handler"
               /\ UNCHANGED summary
    /\ UNCHANGED << gateway_frame, tr_result, d_details, di_result, transcript,
                    chunks, i, found_chunks, f_diarization, f_details >>

\* line 194: self.db.save_summary_chunk(task_id, i, summary), then the next chunk
SaveSummaryChunk ==
    /\ pc = "save_chunk"
    /\ \E o \in Outcomes :
          IF o = "ok"
          THEN /\ summary_chunks' = save_summary_chunk(summary_chunks, i, summary[1])
               /\ calls' = Call("save_summary_chunk", i)
               /\ i' = i + 1
               /\ pc' = IF i + 1 < Len(chunks) THEN "summarize" ELSE "upd_summarized"
               /\ NoFault
          ELSE /\ Fault("save_chunk")
               /\ pc' = "su_handler"
               /\ UNCHANGED << summary_chunks, i, calls >>
    /\ UNCHANGED << task, transcriptions, transcription_details, diarization_results,
                    final_report, store_frame, tr_result, d_details, di_result,
                    transcript, chunks, summary, found_chunks, f_diarization,
                    f_details >>

\* line 196: update_task_status(task_id, TaskStatus.SUMMARIZED), inside the try
UpdSummarized ==
    /\ pc = "upd_summarized"
    /\ StatusUpdate("upd_summarized", SUMMARIZED, "upd_finalizing", "su_handler")
    /\ UNCHANGED update_frame

\* _run_summarization's handler logging only, as _run_diarization's does: no
\* FAILED update, no raise, the workflow goes on to finalization
SummarizationHandler_swallows ==
    /\ pc = "su_handler"
    /\ pc' = "upd_finalizing"
    /\ UNCHANGED << task, hist, last_update, faults, fault_count, update_frame >>

\* lines 199-202: except: update_task_status(task_id, TaskStatus.FAILED); raise
SummarizationHandler ==
    /\ pc = "su_handler"
    /\ StatusUpdate("su_handler", FAILED, "handler", "handler")
    /\ UNCHANGED update_frame

(* -------------------------- _run_finalization ------------------------- *)

\* line 212: update_task_status(task_id, TaskStatus.FINALIZING); no try here
UpdFinalizing ==
    /\ pc = "upd_finalizing"
    /\ StatusUpdate("upd_finalizing", FINALIZING, "get_chunks", "handler")
    /\ UNCHANGED update_frame

\* What the store's get_summary_chunks gives the caller.  DatabaseService
\* defines no such method; the store the aggregator is constructed with
\* returns the task's chunks, returns none (the case line 217 tests), or raises.
ChunkReadOutcomes == {"ok", "empty", "raise"}

\* _run_finalization raising when it finds no summary chunks
GetSummaryChunks_raises_when_empty ==
    /\ pc = "get_chunks"
    /\ \E o \in ChunkReadOutcomes :
          IF o = "raise"
          THEN /\ Fault("get_chunks")
               /\ pc' = "handler"
               /\ UNCHANGED found_chunks
          ELSE /\ found_chunks' = IF o = "ok" THEN get_summary_chunks(summary_chunks)
                                              ELSE <<>>
               /\ pc' = IF found_chunks' = <<>> THEN "handler"
                                                ELSE "f_get_diarization"
               /\ IF o = "ok" THEN NoFault ELSE Fault("chunks_lost")
    /\ UNCHANGED << store_vars, store_frame, calls, tr_result, d_details, di_result,
                    transcript, chunks, i, summary, f_diarization, f_details >>

\* lines 215-219: summary_chunks = self.db.get_summary_chunks(task_id);
\* if not summary_chunks: log and return (to line 95 of the workflow)
GetSummaryChunks ==
    /\ pc = "get_chunks"
    /\ \E o \in ChunkReadOutcomes :
          IF o = "raise"
          THEN /\ Fault("get_chunks")
               /\ pc' = "handler"
               /\ UNCHANGED found_chunks
          ELSE /\ found_chunks' = IF o = "ok" THEN get_summary_chunks(summary_chunks)
                                              ELSE <<>>
               /\ pc' = IF found_chunks' = <<>> THEN "upd_completed"
                                                ELSE "f_get_diarization"
               /\ IF o = "ok" THEN NoFault ELSE Fault("chunks_lost")
    /\ UNCHANGED << store_vars, store_frame, calls, tr_result, d_details, di_result,
                    transcript, chunks, i, summary, f_diarization, f_details >>

\* DatabaseService.get_diarization_result: the result, None without a row
get_diarization_result(table) == table

\* line 222: diarization_result = self.db.get_diarization_result(task_id)
FinalizationGetDiarization ==
    /\ pc = "f_get_diarization"
    /\ \E o \in Outcomes :
          IF o = "ok"
          THEN /\ f_diarization' = get_diarization_result(diarization_results)
               /\ pc' = "f_get_details"
               /\ NoFault
          ELSE /\ Fault("f_get_diarization")
               /\ pc' = "handler"
               /\ UNCHANGED f_diarization
    /\ UNCHANGED << store_vars, store_frame, calls, tr_result, d_details, di_result,
                    transcript, chunks, i, summary, found_chunks, f_details >>

\* line 225: transcription_details = self.db.get_transcription_details(task_id)
FinalizationGetDetails ==
    /\ pc = "f_get_details"
    /\ \E o \in Outcomes :
          IF o = "ok"
          THEN /\ f_details' = get_transcription_details(transcription_details)
               /\ pc' = "save_report"
               /\ NoFault
          ELSE /\ Fault("f_get_details")
               /\ pc' = "handler"
               /\ UNCHANGED f_details
    /\ UNCHANGED << store_vars, store_frame, calls, tr_result, d_details, di_result,
                    transcript, chunks, i, summary, found_chunks, f_diarization >>

\* lines 228-235: final_report = self._compile_final_report(...);
\* self.db.save_final_report(task_id, final_report)
SaveFinalReport ==
    /\ pc = "save_report"
    /\ \E o \in Outcomes :
          IF o = "ok"
          THEN /\ final_report' =
                     save_final_report(final_report,
                         _compile_final_report(found_chunks, f_diarization, f_details))
               /\ calls' = Call("save_final_report", 0)
               /\ pc' = "upd_completed"
               /\ NoFault
          ELSE /\ Fault("save_report")
               /\ pc' = "handler"
               /\ UNCHANGED << final_report, calls >>
    /\ UNCHANGED << task, transcriptions, transcription_details, diarization_results,
                    summary_chunks, store_frame, local_vars >>

(* ------------------- _process_task_workflow, the end ------------------ *)

\* lines 95-97: update_task_status(task_id, TaskStatus.COMPLETED); return True
UpdCompleted ==
    /\ pc = "upd_completed"
    /\ StatusUpdate("upd_completed", COMPLETED, "ret_true", "handler")
    /\ UNCHANGED update_frame

\* the handler returning False without its FAILED update
WorkflowHandler_without_update ==
    /\ pc = "handler"
    /\ pc' = "ret_false"
    /\ UNCHANGED << task, hist, last_update, faults, fault_count, update_frame >>

\* lines 99-102: except Exception: update_task_status(task_id, TaskStatus.FAILED);
\* return False.  An exception raised by the update leaves process_task.
WorkflowHandler ==
    /\ pc = "handler"
    /\ StatusUpdate("handler", FAILED, "ret_false", "ret_raise")
    /\ UNCHANGED update_frame

\* process_task returns (line 52), or the exception propagates to its caller
Return ==
    /\ pc \in {"ret_true", "ret_false", "ret_raise"}
    /\ result' = CASE pc = "ret_true"  -> "true"
                   [] pc = "ret_false" -> "false"
                   [] OTHER            -> "raised"
    /\ pc' = "done"
    /\ UNCHANGED << store_vars, audio_file, runs, local_vars, hist, calls,
                    faults, fault_count, last_update, outside_vars >>

(* ---------------------------- specification --------------------------- *)

Next ==
    \/ Begin
    \/ GetTask
    \/ UpdTranscribing
    \/ Transcribe
    \/ SaveTranscription
    \/ SaveTranscriptionDetails
    \/ UpdTranscribed
    \/ TranscriberHandler
    \/ CleanupAfterTranscriber
    \/ DiarizationGetDetails
    \/ Diarize
    \/ SaveDiarization
    \/ CleanupAfterDiarization
    \/ CleanupAudioFile
    \/ GetTranscription
    \/ UpdSummarizing
    \/ SplitTranscript
    \/ Summarize
    \/ SaveSummaryChunk
    \/ UpdSummarized
    \/ SummarizationHandler
    \/ UpdFinalizing
    \/ GetSummaryChunks
    \/ FinalizationGetDiarization
    \/ FinalizationGetDetails
    \/ SaveFinalReport
    \/ UpdCompleted
    \/ WorkflowHandler
    \/ Return

Spec == Init /\ [][Next]_vars

\* a step of the invocation in progress: a thread that runs process_task
\* goes on to its next statement once the call it waits for returned or raised
WorkflowStep == pc \notin {"idle", "done"} /\ Next

\* the invocations, each running on to its return; nothing obliges a caller
\* to invoke process_task again
LiveSpec == Init /\ [][Next]_vars /\ WF_vars(WorkflowStep)


(* ------------------- the application: app.upload_file ----------------- *)

\* uploads made to the application
MaxUploads == 6
\* threads running process_task followed statement by statement
MaxThreads == 3

\* the size of the worker pool the design configures ("e.g. 5"); app.py
\* configures none
pool_size == 5

workflow_vars == << task, transcriptions, transcription_details,
                    diarization_results, summary_chunks, final_report, audio_file,
                    pc, result, runs, tr_result, d_details, di_result, transcript,
                    chunks, i, summary, found_chunks, f_diarization, f_details,
                    hist, calls, faults, fault_count, last_update >>

\* no invocation is followed statement by statement
WorkflowIdle ==
    /\ task = NoTask
    /\ transcriptions = <<>>
    /\ transcription_details = <<>>
    /\ diarization_results = <<>>
    /\ summary_chunks = <<>>
    /\ final_report = <<>>
    /\ audio_file = FALSE
    /\ pc = "idle"
    /\ result = "none"
    /\ runs = 0
    /\ tr_result = <<>>
    /\ d_details = <<>>
    /\ di_result = <<>>
    /\ transcript = <<>>
    /\ chunks = <<>>
    /\ i = 0
    /\ summary = <<>>
    /\ found_chunks = <<>>
    /\ f_diarization = <<>>
    /\ f_details = <<>>
    /\ hist = <<>>
    /\ calls = <<>>
    /\ faults = {}
    /\ fault_count = 0
    /\ last_update = NoUpdate

\* the application after start-up: no task, no thread, aggregator = the one
\* TranscriberAggregator() with its one TranscriberService, model not loaded
AppInit ==
    /\ WorkflowIdle
    /\ summaries = <<>>
    /\ threads = <<>>
    /\ self_model = "none"
    /\ statuses = <<>>
    /\ Apart

\* the threads that have not left process_task
InProgress == {k \in 1..Len(threads) : threads[k].pc # "returned"}

\* upload_file, lines 41-48: task_manager.create_task saves a new PENDING task;
\* threading.Thread(target=aggregator.process_task, args=(task_id,)).start()
upload_file(max_threads) ==
    /\ Len(threads) < max_threads
    /\ statuses' = Append(statuses, PENDING)
    /\ threads' = Append(threads, [task |-> Len(statuses) + 1, pc |-> "started"])
    /\ UNCHANGED << workflow_vars, apart_vars, summaries, self_model >>

\* a thread runs process_task from its first statement to its return; the
\* task ends COMPLETED or FAILED
process_task ==
    \E k \in 1..Len(threads) :
        /\ threads[k].pc = "started"
        /\ \E status \in {COMPLETED, FAILED} :
              statuses' = [statuses EXCEPT ![threads[k].task] = status]
        /\ threads' = [threads EXCEPT ![k].pc = "returned"]
        /\ UNCHANGED << workflow_vars, apart_vars, summaries, self_model >>

UploadNext ==
    \/ upload_file(MaxUploads)
    \/ process_task

\* uploads, each served by a thread of its own
UploadSpec == AppInit /\ [][UploadNext]_vars


(* ------------- threads sharing the aggregator's services -------------- *)

\* process_task(task_id) invoked once more, for a task id that exists: it
\* takes no lock and reads no status before it starts
invoke_again ==
    /\ Len(threads) < MaxThreads
    /\ \E t \in 1..Len(statuses) :
          threads' = Append(threads, [task |-> t, pc |-> "started"])
    /\ UNCHANGED << workflow_vars, apart_vars, summaries, self_model, statuses >>

\* thread k goes to `next`, its task's status becoming `status`
Advance(k, status, next) ==
    /\ statuses' = [statuses EXCEPT ![threads[k].task] = status]
    /\ threads' = [threads EXCEPT ![k].pc = next]

\* aggregator lines 66-114: the task is found; update_task_status(TRANSCRIBING)
ThreadRunTranscriber ==
    \E k \in 1..Len(threads) :
        /\ threads[k].pc = "started"
        /\ Advance(k, TRANSCRIBING, "load")
        /\ UNCHANGED << workflow_vars, apart_vars, summaries, self_model >>

\* TranscriberService.transcribe, lines 78-79:
\* if self.model is None: self._load_models()
ThreadLoadModels ==
    \E k \in 1..Len(threads) :
        /\ threads[k].pc = "load"
        /\ self_model' = "loaded"
        /\ threads' = [threads EXCEPT ![k].pc = "transcribe"]
        /\ UNCHANGED << workflow_vars, apart_vars, summaries, statuses >>

\* TranscriberService.transcribe, lines 82-88: load_audio, then
\* self.model.transcribe(...).  With self.model None the attribute access
\* raises; _run_transcriber's handler sets FAILED and the workflow returns
\* False (aggregator lines 138-141, 99-102).  Otherwise the results are
\* saved and the status becomes TRANSCRIBED (lines 126-135).
ThreadTranscribe ==
    \E k \in 1..Len(threads) :
        /\ threads[k].pc = "transcribe"
        /\ IF self_model = "loaded"
           THEN Advance(k, TRANSCRIBED, "cleanup1")
           ELSE Advance(k, FAILED, "returned")
        /\ UNCHANGED << workflow_vars, apart_vars, summaries, self_model >>

\* aggregator lines 74 and 79: self.transcriber_service.cleanup(), which
\* (TranscriberService.cleanup, lines 154-156) deletes self.model and sets
\* it to None.  The diarization between the two calls uses a pipeline of
\* its own and leaves self.model alone.
ThreadCleanup ==
    \E k \in 1..Len(threads) :
        /\ threads[k].pc \in {"cleanup1", "cleanup2"}
        /\ self_model' = "none"
        /\ threads' = [threads EXCEPT
                          ![k].pc = IF threads[k].pc = "cleanup1" THEN "cleanup2"
                                                                  ELSE "summarize"]
        /\ UNCHANGED << workflow_vars, apart_vars, summaries, statuses >>

\* aggregator lines 80-97: summarization, finalization, COMPLETED, return True
ThreadFinish ==
    \E k \in 1..Len(threads) :
        /\ threads[k].pc = "summarize"
        /\ Advance(k, COMPLETED, "returned")
        /\ UNCHANGED << workflow_vars, apart_vars, summaries, self_model >>

ThreadsNext ==
    \/ upload_file(MaxThreads)
    \/ invoke_again
    \/ ThreadRunTranscriber
    \/ ThreadLoadModels
    \/ ThreadTranscribe
    \/ ThreadCleanup
    \/ ThreadFinish

\* threads running process_task at the same time, every gateway and store
\* call succeeding
ThreadsSpec == AppInit /\ [][ThreadsNext]_vars


(* ------------------ the Task Store, called directly ------------------- *)

\* writes made to one table of the store
MaxWrites == 3

\* the members of TaskStatus by name, in declaration order; TaskStatus holds
\* their values
Members ==
    << "PENDING", "TRANSCRIBING", "TRANSCRIBED", "SUMMARIZING", "SUMMARIZED",
       "FINALIZING", "COMPLETED", "FAILED" >>

\* member.value
value(member) ==
    TaskStatus[CHOOSE k \in 1..Len(Members) : Members[k] = member]

\* TaskStatus.from_string: the first member, in declaration order, whose
\* value is the string; ValueError when there is none
from_string(status_str) ==
    IF \E k \in 1..Len(TaskStatus) : TaskStatus[k] = status_str
    THEN Members[CHOOSE k \in 1..Len(TaskStatus) :
                    /\ TaskStatus[k] = status_str
                    /\ \A j \in 1..(k - 1) : TaskStatus[j] # status_str]
    ELSE "ValueError"

\* what a caller passes TaskManager.update_task_status as status: a member
\* of TaskStatus, or a string (one that is a status value, one that is not)
StatusArgs ==
    [enum : {TRUE}, s : {Members[k] : k \in 1..Len(Members)}]
        \cup [enum : {FALSE}, s : {COMPLETED, "archived"}]

\* TaskManager.update_task_status, lines 79-80:
\* if isinstance(status, TaskStatus): status = status.value
status_string(arg) == IF arg.enum THEN value(arg.s) ELSE arg.s

\* DatabaseService.save_summary: INSERT INTO summaries, one more row
save_summary(table, text) == Append(table, text)

\* DatabaseService.get_summary: fetchone() of the id's rows, None without one
get_summary(table) == IF table = <<>> THEN <<>> ELSE << table[1] >>

\* DatabaseService.get_task_full_info: None without a task row, else the
\* task with the artifacts found
get_task_full_info(row, tr, details, diarization, sums) ==
    IF get_task(row) = <<>> THEN <<>>
    ELSE << [ task |-> row,
              transcription |-> get_transcription(tr),
              transcription_details |-> get_transcription_details(details),
              diarization_result |-> get_diarization_result(diarization),
              summary |-> get_summary(sums) ] >>

\* TranscriberAggregator.get_task_progress: None without a task row, else the
\* status and the stages completed
get_task_progress(row, tr, chunk_table, report) ==
    IF get_task(row) = <<>> THEN <<>>
    ELSE << [ status |-> row.status,
              updated_at |-> row.updated_at,
              transcription_completed |->
                  /\ row.status \notin {PENDING, TRANSCRIBING}
                  /\ get_transcription(tr) # <<>>,
              summary_chunks_count |->
                  IF row.status \in {SUMMARIZED, FINALIZING, COMPLETED}
                  THEN Len(get_summary_chunks(chunk_table)) ELSE 0,
              final_report_completed |->
                  row.status = COMPLETED /\ report # <<>> ] >>

\* what a call into the store leaves alone, besides the table it writes
store_call_frame ==
    << summary_chunks, final_report, audio_file, pc, result, runs, local_vars,
       hist, calls, faults, fault_count, threads, self_model, statuses,
       apart_vars >>

\* TaskManager.create_task: save_task(task_id, PENDING) for a new task id
StoreCreateTask ==
    /\ ~task.exists
    /\ task' = save_task(task, value("PENDING"), "upload", "options", now)
    /\ UNCHANGED << transcriptions, transcription_details, diarization_results,
                    summaries, last_update, store_call_frame >>

\* TaskManager.update_task_status(task_id, status), for a task id that has
\* a row or has none
StoreUpdateTaskStatus ==
    /\ task.updated_at < MaxWrites
    /\ \E arg \in StatusArgs :
          /\ task' = update_task_status(task, status_string(arg), now)
          /\ last_update' = [req |-> status_string(arg), pre |-> task,
                             post |-> task', ret |-> update_rowcount(task)]
    /\ UNCHANGED << transcriptions, transcription_details, diarization_results,
                    summaries, store_call_frame >>

\* DatabaseService.save_transcription(task_id, transcript): INSERT OR REPLACE;
\* the connection never turns foreign keys on, so no task row is needed
StoreSaveTranscription ==
    /\ transcriptions' = insert_or_replace(transcriptions, <<0>>)
    /\ UNCHANGED << task, transcription_details, diarization_results, summaries,
                    last_update, store_call_frame >>

\* DatabaseService.save_transcription_details(task_id, details)
StoreSaveTranscriptionDetails ==
    /\ transcription_details' = insert_or_replace(transcription_details, <<>>)
    /\ UNCHANGED << task, transcriptions, diarization_results, summaries,
                    last_update, store_call_frame >>

\* DatabaseService.save_diarization_result(task_id, result)
StoreSaveDiarizationResult ==
    /\ diarization_results' =
           insert_or_replace(diarization_results,
                             [segments |-> <<>>, speakers |-> TRUE])
    /\ UNCHANGED << task, transcriptions, transcription_details, summaries,
                    last_update, store_call_frame >>

\* DatabaseService.save_summary(task_id, summary)
StoreSaveSummary ==
    /\ Len(summaries) < MaxWrites
    /\ summaries' = save_summary(summaries, Len(summaries))
    /\ UNCHANGED << task, transcriptions, transcription_details,
                    diarization_results, last_update, store_call_frame >>

\* DatabaseService.delete_task(task_id): the id's rows of transcriptions,
\* transcription_details, diarization_results, summaries and tasks
StoreDeleteTask ==
    /\ task' = NoTask
    /\ transcriptions' = <<>>
    /\ transcription_details' = <<>>
    /\ diarization_results' = <<>>
    /\ summaries' = <<>>
    /\ UNCHANGED << last_update, store_call_frame >>

StoreNext ==
    \/ StoreCreateTask
    \/ StoreUpdateTaskStatus
    \/ StoreSaveTranscription
    \/ StoreSaveTranscriptionDetails
    \/ StoreSaveDiarizationResult
    \/ StoreSaveSummary
    \/ StoreDeleteTask

\* the store's operations called in any order for one task id
StoreSpec == AppInit /\ [][StoreNext]_vars


(* ------------- the artifact tables, saves for two task ids ------------ *)

\* the task id followed and a second one
TaskIds == {1, 2}

\* the values saved: transcripts, transcription details, diarization results
ValuesOf(table) ==
    CASE table = "transcriptions" -> { <<0>>, <<1, 0>> }
      [] table = "transcription_details" -> { <<>>, <<1>> }
      [] table = "diarization_results" ->
             { [segments |-> <<1>>, speakers |-> TRUE],
               [segments |-> <<1>>, speakers |-> FALSE] }

\* the rows of a task id in a table
RowsOf(table, id) ==
    IF id = 2 THEN other_rows[table]
    ELSE CASE table = "transcriptions" -> transcriptions
           [] table = "transcription_details" -> transcription_details
           [] table = "diarization_results" -> diarization_results

\* what every save leaves alone
saves_frame ==
    << task, summary_chunks, final_report, audio_file, pc, result, runs,
       local_vars, hist, calls, faults, fault_count, last_update, summaries,
       threads, self_model, statuses, args, returned >>

\* DatabaseService.save_transcription(task_id, transcript)
SaveTranscriptionOf ==
    \E id \in TaskIds, v \in ValuesOf("transcriptions") :
        /\ IF id = 1
           THEN /\ transcriptions' = insert_or_replace(transcriptions, v)
                /\ UNCHANGED other_rows
           ELSE /\ other_rows' =
                       [other_rows EXCEPT
                           !.transcriptions = insert_or_replace(@, v)]
                /\ UNCHANGED transcriptions
        /\ last_save' = [table |-> "transcriptions", id |-> id, value |-> v,
                         had |-> RowsOf("transcriptions", id) # <<>>]
        /\ UNCHANGED << transcription_details, diarization_results,
                        saves_frame >>

\* DatabaseService.save_transcription_details(task_id, details)
SaveTranscriptionDetailsOf ==
    \E id \in TaskIds, v \in ValuesOf("transcription_details") :
        /\ IF id = 1
           THEN /\ transcription_details' =
                       insert_or_replace(transcription_details, v)
                /\ UNCHANGED other_rows
           ELSE /\ other_rows' =
                       [other_rows EXCEPT
                           !.transcription_details = insert_or_replace(@, v)]
                /\ UNCHANGED transcription_details
        /\ last_save' = [table |-> "transcription_details", id |-> id,
                         value |-> v,
                         had |-> RowsOf("transcription_details", id) # <<>>]
        /\ UNCHANGED << transcriptions, diarization_results, saves_frame >>

\* DatabaseService.save_diarization_result(task_id, result)
SaveDiarizationResultOf ==
    \E id \in TaskIds, v \in ValuesOf("diarization_results") :
        /\ IF id = 1
           THEN /\ diarization_results' =
                       insert_or_replace(diarization_results, v)
                /\ UNCHANGED other_rows
           ELSE /\ other_rows' =
                       [other_rows EXCEPT
                           !.diarization_results = insert_or_replace(@, v)]
                /\ UNCHANGED diarization_results
        /\ last_save' = [table |-> "diarization_results", id |-> id,
                         value |-> v,
                         had |-> RowsOf("diarization_results", id) # <<>>]
        /\ UNCHANGED << transcriptions, transcription_details, saves_frame >>

SavesNext ==
    \/ SaveTranscriptionOf
    \/ SaveTranscriptionDetailsOf
    \/ SaveDiarizationResultOf

\* the three saves called in any order for two task ids
SavesSpec == AppInit /\ [][SavesNext]_vars


(* ---------------- the tasks table, calls for two task ids ------------- *)

\* number of save_task and update_task_status calls
MaxCalls == 3

\* the tasks row of a task id
TaskOf(id) == IF id = 2 THEN other_rows.task ELSE task

\* no call made yet
NoCall == [n |-> 0, op |-> "none", task_id |-> 0, status |-> "none"]

TasksInit ==
    /\ WorkflowIdle
    /\ summaries = <<>>
    /\ threads = <<>>
    /\ self_model = "none"
    /\ statuses = <<>>
    /\ other_rows = NoRows
    /\ last_save = NoSave
    /\ args = NoCall
    /\ returned = <<>>

\* what a call on the tasks table leaves alone, besides the row it writes
tasks_frame ==
    << transcriptions, transcription_details, diarization_results,
       summary_chunks, final_report, audio_file, pc, result, runs, local_vars,
       hist, calls, faults, fault_count, last_update, summaries, threads,
       self_model, statuses, last_save >>

\* the row of task id `id` becomes `row`
WriteTask(id, row) ==
    IF id = 2
    THEN other_rows' = [other_rows EXCEPT !.task = row] /\ UNCHANGED task
    ELSE task' = row /\ UNCHANGED other_rows

\* TaskManager.create_task(audio_file, options): save_task for a new task id,
\* with the path of the file saved and the options given or None
CreateTaskOf ==
    /\ args.n < MaxCalls
    /\ \E id \in TaskIds, options \in {"options", "None"} :
          /\ ~TaskOf(id).exists
          /\ WriteTask(id, save_task(TaskOf(id), value("PENDING"), "upload",
                                     options, TaskOf(id).updated_at + 1))
          /\ args' = [n |-> args.n + 1, op |-> "save_task", task_id |-> id,
                      status |-> value("PENDING")]
    /\ UNCHANGED << returned, tasks_frame >>

\* TaskManager.update_task_status(task_id, status), for an id with or
\* without a row
UpdateTaskStatusOf ==
    /\ args.n < MaxCalls
    /\ \E id \in TaskIds, status \in {TRANSCRIBING, FAILED} :
          /\ WriteTask(id, update_task_status(TaskOf(id), status,
                                              TaskOf(id).updated_at + 1))
          /\ returned' = << update_rowcount(TaskOf(id)) >>
          /\ args' = [n |-> args.n + 1, op |-> "update_task_status",
                      task_id |-> id, status |-> status]
    /\ UNCHANGED tasks_frame

TasksNext ==
    \/ CreateTaskOf
    \/ UpdateTaskStatusOf
    \/ SaveTranscriptionOf

\* tasks created and updated, and transcripts saved, for two task ids
TasksSpec == TasksInit /\ [][TasksNext]_vars


(* ----------------- _split_transcript, called on its own --------------- *)

MaxText == 6
MaxLimit == 4

\* a text is the sequence of its characters: a letter, the full stop, the space
Chars == {"a", ".", " "}
Texts == UNION { [1..n -> Chars] : n \in 0..MaxText }

RECURSIVE str_split(_, _, _, _)
\* transcript.split('. ') from character k on: the pieces between the
\* occurrences of ". ", found left to right; the empty text has one empty piece
str_split(text, k, piece, pieces) ==
    IF k > Len(text) THEN Append(pieces, piece)
    ELSE IF text[k] = "." /\ k < Len(text) /\ text[k + 1] = " "
         THEN str_split(text, k + 2, <<>>, Append(pieces, piece))
         ELSE str_split(text, k + 1, Append(piece, text[k]), pieces)

RECURSIVE lstrip(_)
lstrip(s) == IF s # <<>> /\ Head(s) = " " THEN lstrip(Tail(s)) ELSE s

RECURSIVE rstrip(_)
rstrip(s) ==
    IF s # <<>> /\ s[Len(s)] = " " THEN rstrip(SubSeq(s, 1, Len(s) - 1)) ELSE s

\* str.strip(): the text without the white space at its two ends
strip(s) == rstrip(lstrip(s))

RECURSIVE TextLoop_no_flush(_, _, _, _, _)
\* the loop without the flush of the last buffer (lines 264-265)
TextLoop_no_flush(sentences, k, out, current_chunk, limit) ==
    IF k > Len(sentences) THEN out
    ELSE IF Len(current_chunk) + Len(sentences[k]) + 2 <= limit
         THEN TextLoop_no_flush(sentences, k + 1, out,
                                current_chunk \o sentences[k] \o <<".", " ">>,
                                limit)
         ELSE TextLoop_no_flush(sentences, k + 1,
                                Append(out, strip(current_chunk)),
                                sentences[k] \o <<".", " ">>, limit)

RECURSIVE TextLoop(_, _, _, _, _)
\* _split_transcript, lines 257-267, on the characters
TextLoop(sentences, k, out, current_chunk, limit) ==
    IF k > Len(sentences)
    THEN IF current_chunk # <<>> THEN Append(out, strip(current_chunk)) ELSE out
    ELSE IF Len(current_chunk) + Len(sentences[k]) + 2 <= limit
         THEN TextLoop(sentences, k + 1, out,
                       current_chunk \o sentences[k] \o <<".", " ">>, limit)
         ELSE TextLoop(sentences, k + 1, Append(out, strip(current_chunk)),
                       sentences[k] \o <<".", " ">>, limit)

\* the early return of lines 250-251 left out
_split_always(text, limit) ==
    TextLoop(str_split(text, 1, <<>>, <<>>), 1, <<>>, <<>>, limit)

\* _split_transcript(transcript, max_chunk_size), on the characters
_split_transcript_text(text, limit) ==
    IF Len(text) <= limit THEN <<text>>
    ELSE TextLoop(str_split(text, 1, <<>>, <<>>), 1, <<>>, <<>>, limit)

\* the aggregator's _split_transcript is about to be called with any short
\* text and any small limit
ChunkerInit ==
    /\ WorkflowIdle
    /\ summaries = <<>>
    /\ threads = <<>>
    /\ self_model = "none"
    /\ statuses = <<>>
    /\ other_rows = NoRows
    /\ last_save = NoSave
    /\ args \in [transcript : Texts, max_chunk_size : 1..MaxLimit]
    /\ returned = <<>>

\* chunks = self._split_transcript(transcript, max_chunk_size)
CallSplitTranscript ==
    /\ returned = <<>>
    /\ returned' =
           << _split_transcript_text(args.transcript, args.max_chunk_size) >>
    /\ UNCHANGED << workflow_vars, summaries, threads, self_model, statuses,
                    args, other_rows, last_save >>

ChunkerNext == CallSplitTranscript

ChunkerSpec == ChunkerInit /\ [][ChunkerNext]_vars


(* --------------- _compile_final_report, called on its own ------------- *)

MaxChunks == 2
MaxSegments == 3

\* a time is held in tenths of a second; int(seconds) truncates
int(seconds) == seconds \div 10

DigitChars == << "0", "1", "2", "3", "4", "5", "6", "7", "8", "9" >>

RECURSIVE Decimal(_)
\* the decimal digits of a natural number
Decimal(n) ==
    IF n < 10 THEN << DigitChars[n + 1] >>
    ELSE Append(Decimal(n \div 10), DigitChars[(n % 10) + 1])

\* the format 02d: at least two digits, padded with a zero
format_02d(n) == IF n < 10 THEN << "0" >> \o Decimal(n) ELSE Decimal(n)

\* _format_time rounding to the nearest second
_format_time_rounding(seconds) ==
    LET minutes == int(seconds + 5) \div 60
        secs    == int(seconds + 5) % 60
    IN  format_02d(minutes) \o << ":" >> \o format_02d(secs)

\* _format_time(seconds): MM:SS
_format_time(seconds) ==
    LET minutes == int(seconds) \div 60
        secs    == int(seconds) % 60
    IN  format_02d(minutes) \o << ":" >> \o format_02d(secs)

\* the label of a segment without the key 'speaker'
placeholder == "Speaker"

\* a report is the sequence of the parts appended to it
Title == [part |-> "title"]
SummaryHeading == [part |-> "summary heading"]
TranscriptHeading == [part |-> "transcript heading"]
BlankLine == [part |-> "blank line"]
Text(summary_text) == [part |-> "text", text |-> summary_text]

\* lines 298-304: the line of a segment
SegmentLine(segment) ==
    [ part       |-> "segment",
      start_time |-> _format_time(segment.start),
      end_time   |-> _format_time(segment.end),
      text       |-> segment.text,
      speaker    |-> IF segment.speaker # <<>> THEN segment.speaker[1]
                     ELSE placeholder ]

RECURSIVE SummaryParts_run_together(_, _)
\* the summaries with no blank line between them
SummaryParts_run_together(summary_list, k) ==
    IF k > Len(summary_list) THEN <<>>
    ELSE << Text(summary_list[k]) >>
         \o SummaryParts_run_together(summary_list, k + 1)

RECURSIVE SummaryParts(_, _)
\* lines 288-291: the summaries from position k on, a blank line before each
\* but the first
SummaryParts(summary_list, k) ==
    IF k > Len(summary_list) THEN <<>>
    ELSE (IF k > 1 THEN << BlankLine >> ELSE <<>>)
         \o << Text(summary_list[k]) >> \o SummaryParts(summary_list, k + 1)

\* _compile_final_report(summary_chunks, diarization_result,
\* transcription_details), the text it builds; diarization_result is not read
_compile_final_report_text(chunk_list, diarization_result, details) ==
    << Title, SummaryHeading >>
    \o SummaryParts([k \in 1..Len(chunk_list) |-> chunk_list[k].summary], 1)
    \o IF details # <<>> /\ "segments" \in DOMAIN details[1]
       THEN << TranscriptHeading >>
            \o [k \in 1..Len(details[1].segments) |->
                    SegmentLine(details[1].segments[k])]
       ELSE <<>>

\* the start times of the segments given: 5 s, 65.5 s and 130 s
Starts == {50, 655, 1300}

\* a segment as transcribe returns it, or with the label `speaker`
Segment(start, speaker) ==
    [start |-> start, end |-> start + 15, text |-> "t", speaker |-> speaker]

\* the segment lists given: any starts in any order, every segment with the
\* same label or with none
SegmentLists(speaker) ==
    UNION { { [k \in 1..n |-> Segment(starts[k], speaker)] :
              starts \in [1..n -> Starts] } : n \in 0..MaxSegments }

\* what get_summary_chunks returns: chunks in ascending index order from 0
ChunkLists ==
    UNION { { [k \in 1..n |-> [index |-> k - 1, summary |-> texts[k]]] :
              texts \in [1..n -> {"s", "t"}] } : n \in 0..MaxChunks }

\* what get_transcription_details returns: None, details without segments,
\* or details whose segments carry no label or all the same one
DetailsGiven ==
    { <<>>, << [language |-> "ru"] >> }
    \cup { << [language |-> "ru", segments |-> segs] >> :
           segs \in SegmentLists(<<>>) \cup SegmentLists(<< "SPEAKER_00" >>) }

\* what get_diarization_result returns for these details: None, the segments
\* as diarize returned them unlabelled, or the segments labelled
DiarizationGiven(details) ==
    IF details = <<>> \/ "segments" \notin DOMAIN details[1] THEN { <<>> }
    ELSE { <<>>, details,
           << [language |-> "ru",
               segments |-> [k \in 1..Len(details[1].segments) |->
                   [details[1].segments[k]
                       EXCEPT !.speaker = << "SPEAKER_01" >>]]] >> }

\* _compile_final_report is about to be called
CompilerInit ==
    /\ WorkflowIdle
    /\ summaries = <<>>
    /\ threads = <<>>
    /\ self_model = "none"
    /\ statuses = <<>>
    /\ other_rows = NoRows
    /\ last_save = NoSave
    /\ \E chunk_list \in ChunkLists, details \in DetailsGiven :
           \E diarization \in DiarizationGiven(details) :
               args = [summary_chunks |-> chunk_list,
                       diarization_result |-> diarization,
                       transcription_details |-> details]
    /\ returned = <<>>

\* final_report = self._compile_final_report(summary_chunks,
\* diarization_result, transcription_details)
CallCompileFinalReport ==
    /\ returned = <<>>
    /\ returned' =
           << _compile_final_report_text(args.summary_chunks,
                                         args.diarization_result,
                                         args.transcription_details) >>
    /\ UNCHANGED << workflow_vars, summaries, threads, self_model, statuses,
                    args, other_rows, last_save >>

CompilerNext == CallCompileFinalReport

CompilerSpec == CompilerInit /\ [][CompilerNext]_vars


(* ---------------------- _format_time, called on its own --------------- *)

\* the times given, in tenths of a second: every one up to MaxTenths and a
\* few long ones (59:59.9, one hour, 100 minutes, 1000 minutes)
MaxTenths == 1300
Times == 0..MaxTenths \cup {35999, 36000, 59999, 60000, 600000}

\* summary_service.format_time(seconds): int(seconds // 60), int(seconds % 60)
format_time(seconds) ==
    LET minutes == seconds \div 600
        secs    == int(seconds % 600)
    IN  format_02d(minutes) \o << ":" >> \o format_02d(secs)

\* one of the two functions is about to be called with a time
FormatInit ==
    /\ WorkflowIdle
    /\ summaries = <<>>
    /\ threads = <<>>
    /\ self_model = "none"
    /\ statuses = <<>>
    /\ other_rows = NoRows
    /\ last_save = NoSave
    /\ args \in [function : {"_format_time", "format_time"}, seconds : Times]
    /\ returned = <<>>

\* start_time = self._format_time(segment.get('start', 0))
CallFormatTime ==
    /\ returned = <<>>
    /\ args.function = "_format_time"
    /\ returned' = << _format_time(args.seconds) >>
    /\ UNCHANGED << workflow_vars, summaries, threads, self_model, statuses,
                    args, other_rows, last_save >>

\* format_time(seconds) of the summary service's module
CallFormatTimeOfSummaryService ==
    /\ returned = <<>>
    /\ args.function = "format_time"
    /\ returned' = << format_time(args.seconds) >>
    /\ UNCHANGED << workflow_vars, summaries, threads, self_model, statuses,
                    args, other_rows, last_save >>

FormatNext == CallFormatTime \/ CallFormatTimeOfSummaryService

FormatSpec == FormatInit /\ [][FormatNext]_vars


(* --------------------------- the claims ------------------------------- *)

\* the forward order of the lifecycle, PENDING to COMPLETED
ForwardOrder == SubSeq(TaskStatus, 1, 7)

IsPrefix(s, t) == Len(s) <= Len(t) /\ s = SubSeq(t, 1, Len(s))

\* the calls of the invocation made with operation op
CallsOf(op) == {k \in 1..Len(calls) : calls[k].op = op}

\* call sites whose failure the workflow only logs
LoggedSites == {"d_get_details", "diarize", "save_diarization", "remove"}

\* the first invocation, on the task TaskManager.create_task saved
FirstRun == runs = 1 /\ hist # <<>>

\* C1: on a PENDING task, an invocation in which every gateway call and every
\* store call succeeds takes the status through PENDING, TRANSCRIBING,
\* TRANSCRIBED, SUMMARIZING, SUMMARIZED, FINALIZING, COMPLETED, one after the
\* other, none skipped and none repeated, and returns true.
C1_HappyPathOrder ==
    (FirstRun /\ faults = {}) =>
        /\ IsPrefix(hist, ForwardOrder)
        /\ pc = "done" => (hist = ForwardOrder /\ result = "true")

C1_Witness ==
    /\ FirstRun /\ faults = {} /\ pc = "done"
    /\ hist = ForwardOrder /\ result = "true" /\ task.status = COMPLETED

\* C2: a status update requested while the status is COMPLETED or FAILED is
\* rejected: it reports failure and leaves status and updated_at as they were.
C2_TerminalUpdateRejected ==
    (last_update.req # "none" /\ is_final(last_update.pre.status)) =>
        /\ last_update.ret = FALSE
        /\ last_update.post = last_update.pre

\* the position of a status in the forward order, 0 for FAILED and no row
RECURSIVE PositionFrom(_, _)
PositionFrom(status, k) ==
    IF k > Len(ForwardOrder) THEN 0
    ELSE IF ForwardOrder[k] = status THEN k ELSE PositionFrom(status, k + 1)

Position(status) == PositionFrom(status, 1)

\* C3: every change of the status moves to the next state of the forward
\* order or to FAILED, under any sequence of invocations.
C3_ForwardOrFailed ==
    [][ task'.status # task.status =>
           \/ task'.status = FAILED
           \/ /\ Position(task.status) > 0
              /\ Position(task'.status) = Position(task.status) + 1 ]_vars

\* C4: process_task always returns a boolean; after an internal error on an
\* existing task the result is false and the status is FAILED.
C4_NeverRaises ==
    pc = "done" =>
        /\ result \in {"true", "false"}
        /\ (task.exists /\ faults \ (LoggedSites \cup {"chunks_lost"}) # {}) =>
               (result = "false" /\ task.status = FAILED)

\* C5: when the transcription gateway raises on a PENDING task without
\* artifacts, neither the diarization nor the summarization gateway is called,
\* no SummaryChunk and no FinalReport exists, and (the store answering every
\* call) the task ends FAILED with process_task returning false.
C5_TranscriptionFailureIsFatal ==
    (FirstRun /\ "transcribe" \in faults) =>
        /\ CallsOf("diarize") = {} /\ CallsOf("summarize") = {}
        /\ summary_chunks = <<>> /\ final_report = <<>>
        /\ (pc = "done" /\ faults = {"transcribe"}) =>
               (task.status = FAILED /\ result = "false")

C5_Witness ==
    /\ FirstRun /\ faults = {"transcribe"} /\ pc = "done"
    /\ task.status = FAILED /\ result = "false"
    /\ hist = << PENDING, TRANSCRIBING, FAILED, FAILED >>


\* the outcome the fatal stages decide: COMPLETED and true when neither the
\* transcription nor the summarization gateway raised, else FAILED and false
OutcomeOf(raised) ==
    IF raised \cap {"transcribe", "summarize"} = {}
    THEN << COMPLETED, "true" >>
    ELSE << FAILED, "false" >>

\* C6: whether the diarization gateway raises, returns or is not called makes
\* no difference to the terminal status and the result, which the outcomes of
\* transcription and summarization decide; with both succeeding and
\* diarization raising the task is COMPLETED and process_task returns true.
C6_DiarizationFailureIsNotFatal ==
    (pc = "done" /\ task.exists /\ faults \subseteq {"transcribe", "diarize", "summarize"}) =>
        << task.status, result >> = OutcomeOf(faults)

C6_Witness ==
    /\ pc = "done" /\ faults = {"diarize"}
    /\ CallsOf("diarize") # {} /\ CallsOf("save_diarization_result") = {}
    /\ task.status = COMPLETED /\ result = "true"

\* C7: once the summarization gateway raised on chunk i, no chunk of index
\* above i is summarized, chunk i and the chunks after it are not persisted,
\* finalization does not run (no FINALIZING, no COMPLETED, no FinalReport
\* written), process_task does not return true and, the store answering every
\* call, the task ends FAILED with process_task returning false.
C7_SummarizationFailureIsFatal ==
    "summarize" \in faults =>
        /\ pc \in {"su_handler", "handler", "ret_false", "ret_raise", "done"}
        /\ \A k \in CallsOf("summarize") : calls[k].arg <= i
        /\ \A k \in CallsOf("save_summary_chunk") : calls[k].arg < i
        /\ CallsOf("save_final_report") = {}
        /\ \A k \in 2..Len(hist) : hist[k] \notin {FINALIZING, COMPLETED}
        /\ result # "true"
        /\ (pc = "done" /\ faults = {"summarize"}) =>
               (task.status = FAILED /\ result = "false")

\* the gateway raised on the second chunk, after the first was persisted
C7_Witness ==
    /\ pc = "done" /\ faults = {"summarize"} /\ i = 1 /\ Len(chunks) > 2
    /\ CallsOf("save_summary_chunk") # {}
    /\ task.status = FAILED /\ result = "false"

\* C8: a failure of transcriber_service.cleanup() or of the deletion of the
\* source file is only logged: the task ends as it does without the failure.
C8_BestEffortNeverAborts ==
    (pc = "done" /\ task.exists /\ faults \subseteq {"cleanup1", "cleanup2", "remove"}) =>
        (task.status = COMPLETED /\ result = "true")

\* the store calls the four stages make
StageStoreSites ==
    { "upd_transcribing", "save_transcription", "save_details", "upd_transcribed",
      "d_get_details", "save_diarization",
      "upd_summarizing", "save_chunk", "upd_summarized",
      "upd_finalizing", "get_chunks", "f_get_diarization", "f_get_details",
      "save_report" }

\* C9: a store failure raised inside any stage, the diarization stage
\* included, is fatal: the task ends FAILED and process_task returns false.
\* Stated for an invocation in which that store call is the only failure.
C9_StoreFailureIsFatal ==
    (pc = "done" /\ task.exists /\ Cardinality(faults) = 1 /\ faults \subseteq StageStoreSites) =>
        (task.status = FAILED /\ result = "false")

C11_EventuallyTerminal ==
    (pc = "get_task" /\ task.exists) ~> is_final(task.status)

\* C12: the number of process_task executions in progress never exceeds the
\* pool size; a task submitted while every slot is busy waits in a queue.
C12_BoundedPool == Cardinality(InProgress) <= pool_size

\* thread k is the only invocation of process_task on its task
Alone(k) == \A j \in 1..Len(threads) : j # k => threads[j].task # threads[k].task

\* C13: process_task running for distinct tasks at the same time gives each
\* task the terminal status it reaches when run alone (COMPLETED when every
\* call succeeds): one task's cleanup() cannot fail another's transcription.
C13_NoInterference ==
    \A k \in 1..Len(threads) :
        (threads[k].pc = "returned" /\ Alone(k)) =>
            statuses[threads[k].task] = COMPLETED

\* C14: at any time at most one invocation of process_task, hence at most
\* one stage, is executing for a task id.
C14_OneInvocationPerTask ==
    \A j, k \in InProgress : j # k => threads[j].task # threads[k].task

Min(S) == CHOOSE n \in S : \A m \in S : n <= m

\* C15: in every run that reaches the summarization gateway, cleanup() has
\* been called exactly twice before the first summarization call: once after
\* the transcription gateway returned and its results were saved and before
\* anything of the diarization stage, once after the diarization stage.
C15_CleanupBeforeSummarization ==
    CallsOf("summarize") # {} =>
        /\ Cardinality(CallsOf("cleanup")) = 2
        /\ \E a, b \in CallsOf("cleanup") :
              /\ a < b
              /\ b < Min(CallsOf("summarize"))
              /\ CallsOf("transcribe") # {}
              /\ \A k \in CallsOf("transcribe") \cup CallsOf("save_transcription")
                           \cup CallsOf("save_transcription_details") : k < a
              /\ \A k \in CallsOf("diarize") \cup CallsOf("save_diarization_result") :
                    a < k /\ k < b

C15_Witness ==
    /\ pc = "done"
    /\ result = "true"
    /\ CallsOf("summarize") # {}
    /\ CallsOf("save_diarization_result") # {}
    /\ Cardinality(CallsOf("cleanup")) = 2

\* C16: whenever a SummaryChunk or a FinalReport exists for the task, a
\* TranscriptionResult exists for it.
C16_TranscriptionBeforeLaterArtifacts ==
    (summary_chunks # <<>> \/ final_report # <<>>) => transcriptions # <<>>

C16_Witness ==
    /\ summary_chunks # <<>>
    /\ final_report # <<>>
    /\ transcriptions # <<>>
    /\ pc = "done"

\* C17: a missing predecessor artifact is fatal: when finalization is about
\* to start and finds no SummaryChunk, the task becomes FAILED, no FinalReport
\* is written and process_task returns false.
C17_MissingArtifactIsFatal ==
    (pc = "done" /\ "chunks_lost" \in faults /\ Cardinality(faults) = 1) =>
        /\ task.status = FAILED
        /\ result = "false"
        /\ CallsOf("save_final_report") = {}

\* C18: for a task id without a task record every read operation reports
\* not-found, whatever artifact rows the id has.
C18_UnknownTaskReadsNotFound ==
    ~task.exists =>
        /\ get_task(task) = <<>>
        /\ get_task_full_info(task, transcriptions, transcription_details,
                              diarization_results, summaries) = <<>>
        /\ get_task_progress(task, transcriptions, summary_chunks,
                             final_report) = <<>>
        /\ get_transcription(transcriptions) = <<>>
        /\ get_transcription_details(transcription_details) = <<>>
        /\ get_diarization_result(diarization_results) = <<>>
        /\ get_summary(summaries) = <<>>

\* C19: update_task_status on an existing task id writes the status and
\* updated_at together, in the one step that reports success; on an unknown
\* task id it reports failure and leaves the row as it was.
C19_AtomicTransition ==
    last_update.req # "none" =>
        IF last_update.pre.exists
        THEN /\ last_update.ret = TRUE
             /\ last_update.post =
                    [last_update.pre EXCEPT !.status = last_update.req,
                                            !.updated_at = last_update.pre.updated_at + 1]
        ELSE /\ last_update.ret = FALSE
             /\ last_update.post = last_update.pre

C19_Witness ==
    /\ last_update.req = FAILED
    /\ ~last_update.pre.exists
    /\ last_update.ret = FALSE
    /\ ~task.exists

\* the task records a read of the task returns
TasksRead == {get_task(task)[k] : k \in 1..Len(get_task(task))}

\* from_string(s.value) = s for each of the eight members, and no two
\* members share a value
StatusRoundTrip ==
    /\ \A k \in 1..Len(Members) : from_string(value(Members[k])) = Members[k]
    /\ \A j, k \in 1..Len(Members) :
          value(Members[j]) = value(Members[k]) => j = k

\* C20: status values round-trip through their string form, and a read of
\* the task never returns a stored status that is none of the eight values.
C20_CorruptStatusReported ==
    /\ StatusRoundTrip
    /\ \A r \in TasksRead : from_string(r.status) # "ValueError"

\* the sentences of a text: its pieces between ". " delimiters
Sentences(text) == str_split(text, 1, <<>>, <<>>)

\* the lengths of the sentences of a text
Lengths(text) == [k \in 1..Len(Sentences(text)) |-> Len(Sentences(text)[k])]

\* the positions of the sentences each returned chunk holds
Held == _split_transcript(Lengths(args.transcript), args.max_chunk_size)

\* C21: for every text and every limit N, a chunk that _split_transcript
\* returns is longer than N only if it holds a sentence that alone is longer
\* than N.
C21_ChunkWithinLimit ==
    returned # <<>> =>
        \A c \in 1..Len(returned[1]) :
            Len(returned[1][c]) > args.max_chunk_size =>
                \E k \in 1..Len(Held[c]) :
                    Lengths(args.transcript)[Held[c][k]] > args.max_chunk_size

\* the sentences a chunk holds: a chunk is built as its sentences, each
\* followed by ". ", and closed by strip(), which takes the last space
InChunk(chunk) ==
    LET pieces == Sentences(chunk \o <<" ">>)
    IN  SubSeq(pieces, 1, Len(pieces) - 1)

RECURSIVE ReadFrom(_)
\* the sentences of the chunks, read chunk by chunk in order
ReadFrom(chunk_list) ==
    IF chunk_list = <<>> THEN <<>>
    ELSE InChunk(Head(chunk_list)) \o ReadFrom(Tail(chunk_list))

\* every sentence without the white space at its two ends
Trimmed(sentences) == [k \in 1..Len(sentences) |-> strip(sentences[k])]

\* the call returned the chunks of a text longer than the limit
SplitOfLongText ==
    returned # <<>> /\ Len(args.transcript) > args.max_chunk_size

C23_ShortTextReturnedWhole ==
    returned # <<>> /\ Len(args.transcript) <= args.max_chunk_size =>
        returned[1] = << args.transcript >>

\* a text of exactly N characters that holds a delimiter was returned
C23_Witness ==
    /\ returned # <<>>
    /\ Len(args.transcript) = args.max_chunk_size
    /\ Len(Sentences(args.transcript)) > 1

\* the segments given to the compiler
SegmentsGiven ==
    IF args.transcription_details # <<>>
       /\ "segments" \in DOMAIN args.transcription_details[1]
    THEN args.transcription_details[1].segments ELSE <<>>

IsSegmentLine(p) == p.part = "segment"
IsSummaryPart(p) == p.part \in {"text", "blank line"}

\* the segment lines of the transcript section of a report, in order
SegmentLines(report) == SelectSeq(report, IsSegmentLine)

\* the summary section of a report: what stands under its heading
SummarySection(report) == SelectSeq(report, IsSummaryPart)

RECURSIVE Ascending(_)
\* the numbers of a sequence in ascending order
Ascending(numbers) ==
    IF numbers = <<>> THEN <<>>
    ELSE LET least == CHOOSE k \in 1..Len(numbers) :
                          \A j \in 1..Len(numbers) : numbers[k] <= numbers[j]
         IN  << numbers[least] >>
             \o Ascending(SubSeq(numbers, 1, least - 1)
                          \o SubSeq(numbers, least + 1, Len(numbers)))

\* C24: the transcript section lists the segments in ascending order of
\* start time whatever the order they are given in: the labels of its lines
\* are the labels of the start times in ascending order (00:05, 01:05, 02:10
\* for 5, 65 and 130 in any order).
C24_SegmentsInStartOrder ==
    returned # <<>> =>
        LET lines  == SegmentLines(returned[1])
            starts == Ascending([k \in 1..Len(SegmentsGiven) |->
                                     SegmentsGiven[k].start])
        IN  /\ Len(lines) = Len(starts)
            /\ \A k \in 1..Len(lines) :
                   lines[k].start_time = _format_time(starts[k])

\* C25: every segment line shows the label diarization gave the segment
\* when a DiarizationResult with a label for it exists, and the placeholder
\* only when there is no DiarizationResult or the segment has no label in it.
C25_DiarizationLabelShown ==
    returned # <<>> =>
        LET lines == SegmentLines(returned[1])
            given == args.diarization_result
            labelled(k) == given # <<>> /\ given[1].segments[k].speaker # <<>>
        IN  \A k \in 1..Len(lines) :
                /\ labelled(k) =>
                       lines[k].speaker = given[1].segments[k].speaker[1]
                /\ lines[k].speaker = placeholder => ~labelled(k)

\* the summary section of n chunk texts: the texts in the order of the
\* chunks, one blank line between two of them
Joined(chunk_list) ==
    [k \in 1..(IF chunk_list = <<>> THEN 0 ELSE 2 * Len(chunk_list) - 1) |->
        IF k % 2 = 1 THEN Text(chunk_list[(k + 1) \div 2].summary)
        ELSE BlankLine]

\* C26: the summary section holds the texts of all the chunks given, in
\* their ascending index order, each once, one blank line between two of
\* them, and is the same whether or not segments are given.
C26_SummarySection ==
    returned # <<>> =>
        /\ SummarySection(returned[1]) = Joined(args.summary_chunks)
        /\ SummarySection(returned[1]) =
               SummarySection(_compile_final_report_text(args.summary_chunks,
                                                         <<>>, <<>>))
        /\ \A k \in 1..Len(args.summary_chunks) :
               args.summary_chunks[k].index = k - 1

\* a report of two chunks and a transcript section was compiled
C26_Witness ==
    /\ returned # <<>>
    /\ Len(args.summary_chunks) = 2
    /\ args.summary_chunks[1].summary # args.summary_chunks[2].summary
    /\ Len(SegmentLines(returned[1])) >= 2

\* the invocation in progress took the task to SUMMARIZED
SummarizedInThisRun == \E k \in 2..Len(hist) : hist[k] = SUMMARIZED

\* the indices the invocation passed to save_summary_chunk, in call order
IndicesSaved ==
    LET IsSave(c) == c.op = "save_summary_chunk"
        saves     == SelectSeq(calls, IsSave)
    IN  [k \in 1..Len(saves) |-> saves[k].arg]

\* the n SummaryChunks of the chunks the Chunker returned: index k - 1 holds
\* the summary of the k-th piece
ChunksExpected ==
    [k \in 1..Len(chunks) |-> [index |-> k - 1, summary |-> create_summary(chunks[k])]]

\* C27, as stated: once an invocation has taken the task to SUMMARIZED, with
\* the transcript split into n chunks, the invocation has saved the indices
\* 0..n-1 in ascending order and the task has exactly n SummaryChunks, the
\* one of index i holding the summary of the i-th piece.
C27_ExactlyNChunks ==
    SummarizedInThisRun =>
        /\ IndicesSaved = [k \in 1..Len(chunks) |-> k - 1]
        /\ get_summary_chunks(summary_chunks) = ChunksExpected

\* the statement of C27 for the first invocation on a task, before which no
\* SummaryChunk is stored
C27_FirstRunOnly ==
    (SummarizedInThisRun /\ runs = 1) =>
        /\ IndicesSaved = [k \in 1..Len(chunks) |-> k - 1]
        /\ get_summary_chunks(summary_chunks) = ChunksExpected

\* the content the route /api/summary/<task_id> serves for the task: the
\* summary of get_full_task_info, none when there is no such row
ContentServed ==
    LET info == get_task_full_info(task, transcriptions, transcription_details,
                                   diarization_results, summaries)
    IN  IF info = <<>> THEN <<>> ELSE info[1].summary

\* C28: in every reachable state in which the task is FAILED, no FinalReport
\* exists for it and the summary route serves no report content.
C28_NoReportForFailedTask ==
    (task.exists /\ task.status = FAILED) =>
        final_report = <<>> /\ ContentServed = <<>>

\* C29: a DiarizationResult is stored only when diarization succeeded, and
\* every stored DiarizationResult has the speaker of its segments populated.
C29_StoredDiarizationIsLabelled ==
    diarization_results # <<>> => diarization_results[1].speakers

ArtifactTables == {"transcriptions", "transcription_details", "diarization_results"}

\* what a read of the table returns for the task id
ReadOf(table, id) ==
    CASE table = "transcriptions" -> get_transcription(RowsOf(table, id))
      [] table = "transcription_details" ->
             get_transcription_details(RowsOf(table, id))
      [] table = "diarization_results" ->
             get_diarization_result(RowsOf(table, id))

\* C30: a save of a transcript, of transcription details or of a diarization
\* result for a task id, whether or not the id has one, leaves exactly one
\* record of that kind for the id, which a read returns and which holds the
\* value just saved; the records of the other kinds and of the other task id
\* are as they were.
C30_SaveReplaces ==
    [][ \A table \in ArtifactTables, id \in TaskIds :
            IF table = last_save'.table /\ id = last_save'.id
            THEN /\ Len(RowsOf(table, id)') = 1
                 /\ ReadOf(table, id)' = << last_save'.value >>
            ELSE RowsOf(table, id)' = RowsOf(table, id) ]_vars

\* a save has replaced the record of a task id by another value while the
\* other task id has a record of the same kind
C30_Witness ==
    /\ last_save.table = "transcriptions"
    /\ last_save.id = 1
    /\ last_save.had
    /\ transcriptions = << <<1, 0>> >>
    /\ other_rows.transcriptions = << <<0>> >>

\* the SummaryChunks stored for the task, as a set
ChunksStored == {summary_chunks[k] : k \in 1..Len(summary_chunks)}

\* C31: when a task is run again, the SummaryChunks stored for it after the
\* new summarization are exactly the chunks that run wrote: no chunk of an
\* earlier run remains.
C31_RerunClearsChunks ==
    (SummarizedInThisRun /\ runs >= 2) =>
        ChunksStored = {ChunksExpected[k] : k \in 1..Len(ChunksExpected)}

\* the number a digit stands for
DigitValue(d) == (CHOOSE k \in 1..10 : DigitChars[k] = d) - 1

RECURSIVE NumberRead(_)
\* the number a sequence of decimal digits reads as
NumberRead(digits) ==
    IF digits = <<>> THEN 0
    ELSE 10 * NumberRead(SubSeq(digits, 1, Len(digits) - 1))
         + DigitValue(digits[Len(digits)])

IsDigits(text) == \A k \in 1..Len(text) : \E d \in 1..10 : DigitChars[d] = text[k]

\* C32: for every non-negative number of seconds s the text returned is
\* MM:SS, where SS is floor(s) mod 60 in exactly two digits and MM is
\* floor(s) div 60 in at least two digits, not capped at 59; the sub-second
\* remainder is dropped, not rounded.
C32_FormatTime ==
    returned # <<>> =>
        LET text  == returned[1]
            n     == Len(text)
            whole == args.seconds \div 10
            mm    == SubSeq(text, 1, n - 3)
            ss    == SubSeq(text, n - 1, n)
        IN  /\ n >= 5
            /\ text[n - 2] = ":"
            /\ IsDigits(mm) /\ IsDigits(ss)
            /\ NumberRead(ss) = whole % 60
            /\ NumberRead(mm) = whole \div 60
            /\ (Len(mm) > 2 => mm[1] # "0")

\* _format_time(59.9) returned 00:59
C32_Witness ==
    /\ returned = << << "0", "0", ":", "5", "9" >> >>
    /\ args = [function |-> "_format_time", seconds |-> 599]

\* the call sites of the diarization stage
DiarizationSites == {"d_get_details", "diarize", "save_diarization"}

\* the positions of the workflow after the TRANSCRIBED update and up to the
\* SUMMARIZING update
AfterTranscribed ==
    {"cleanup1", "d_get_details", "diarize", "save_diarization", "cleanup2",
     "cleanup_audio", "get_transcription", "upd_summarizing"}

\* C33: in a run in which nothing fails but calls of the diarization stage,
\* the status stays TRANSCRIBED from the TRANSCRIBED update to the
\* SUMMARIZING update and the update that follows TRANSCRIBED is
\* SUMMARIZING, whether diarization succeeds, fails or is skipped; the
\* diarization gateway is called only when transcription details were found.
C33_DiarizationKeepsStatus ==
    /\ (faults \subseteq DiarizationSites) =>
           /\ \A k \in 2..(Len(hist) - 1) :
                  hist[k] = TRANSCRIBED => hist[k + 1] = SUMMARIZING
           /\ pc \in AfterTranscribed =>
                  /\ task.status = TRANSCRIBED
                  /\ last_update.req = TRANSCRIBED
                  /\ last_update.post = task
    /\ CallsOf("diarize") # {} => d_details # <<>>

\* the diarization gateway raised and the workflow has reached the
\* SUMMARIZING update
C33_Witness ==
    /\ pc = "upd_summarizing"
    /\ faults = {"diarize"}
    /\ task.status = TRANSCRIBED

\* C34: an update_task_status call changes only the status and updated_at of
\* the row of the task id addressed: its created_at, file path and options
\* are as they were, and so are the row of the other task id and the
\* artifacts of both.
C34_UpdateTouchesStatusOnly ==
    [][ (args'.n # args.n /\ args'.op = "update_task_status") =>
            /\ \A id \in TaskIds :
                   IF id = args'.task_id
                   THEN /\ TaskOf(id)'.exists = TaskOf(id).exists
                        /\ TaskOf(id)'.created_at = TaskOf(id).created_at
                        /\ TaskOf(id)'.file_path = TaskOf(id).file_path
                        /\ TaskOf(id)'.options = TaskOf(id).options
                        /\ TaskOf(id).exists =>
                               TaskOf(id)'.status = args'.status
                   ELSE TaskOf(id)' = TaskOf(id)
            /\ \A table \in ArtifactTables, id \in TaskIds :
                   RowsOf(table, id)' = RowsOf(table, id) ]_vars

\* the status of a task created with options was updated while the other
\* task id has a row and a transcript
C34_Witness ==
    /\ args.op = "update_task_status"
    /\ args.task_id = 1
    /\ returned = << TRUE >>
    /\ task.status = FAILED
    /\ task.options = "options"
    /\ task.file_path = "upload"
    /\ other_rows.task.exists
    /\ other_rows.transcriptions # <<>>

\* the workflow leaves the row's created_at, file path and options as
\* TaskManager.create_task set them, over all its runs
C34_WorkflowKeepsOptions ==
    task.exists =>
        /\ task.created_at = 0
        /\ task.file_path = "upload"
        /\ task.options = "options"

\* the positions of the workflow outside its four stages
OutsideStages == {"idle", "get_task", "handler", "ret_false", "ret_raise", "done"}

\* C35: process_task on a task id without a task record never enters a
\* stage, so calls no gateway and deletes no file, leaves every table of the
\* store as it was, and returns false once the lookup has answered.
C35_UnknownTaskLeftAlone ==
    ~task.exists =>
        /\ pc \in OutsideStages
        /\ calls = <<>>
        /\ store_vars = << NoTask, <<>>, <<>>, <<>>, <<>>, <<>> >>
        /\ audio_file = FALSE
        /\ result # "true"
        /\ (pc = "done" /\ "get_task" \notin faults) => result = "false"

\* process_task has returned false for a task id without a record
C35_Witness ==
    /\ ~task.exists
    /\ pc = "done"
    /\ result = "false"
    /\ faults = {}

\* C36: on every run in which the transcription gateway is called,
\* transcriber_service.cleanup() is called after it and before process_task
\* returns, whatever path the run takes.
C36_CleanupOnEveryPath ==
    pc = "done" =>
        \A k \in CallsOf("transcribe") : \E c \in CallsOf("cleanup") : c > k

\* C37: for an existing task, when process_task has returned true the
\* task's status is COMPLETED, and when it has returned false the status is
\* FAILED.
C37_ResultAgreesWithStatus ==
    (pc = "done" /\ task.exists) =>
        /\ result = "true" => task.status = COMPLETED
        /\ result = "false" => task.status = FAILED

\* process_task has returned false after the summarization gateway raised
C37_Witness ==
    /\ pc = "done"
    /\ task.exists
    /\ result = "false"
    /\ faults = {"summarize"}
    /\ task.status = FAILED

\* C38: in every reachable state a task whose status is COMPLETED has a
\* FinalReport stored, and the run that set COMPLETED saved it.
C38_CompletedHasReport ==
    (task.exists /\ task.status = COMPLETED) =>
        /\ final_report # <<>>
        /\ (\E k \in 2..Len(hist) : hist[k] = COMPLETED) =>
               CallsOf("save_final_report") # {}

\* the statuses that follow a completed transcription
TranscribedOrLater == {TRANSCRIBED, SUMMARIZING, SUMMARIZED, FINALIZING, COMPLETED}

\* C39: in every reachable state a task whose status is TRANSCRIBED,
\* SUMMARIZING, SUMMARIZED, FINALIZING or COMPLETED has its transcript and
\* its transcription details stored; in a run in which the save of the
\* details failed the task never holds one of these statuses afterwards and
\* is FAILED when process_task returns false.
C39_TranscribedHasBothArtifacts ==
    /\ (task.exists /\ task.status \in TranscribedOrLater) =>
           /\ get_transcription(transcriptions) # <<>>
           /\ get_transcription_details(transcription_details) # <<>>
    /\ "save_details" \in faults =>
           /\ \A k \in 2..Len(hist) : hist[k] \notin TranscribedOrLater
           /\ (pc = "done" /\ result = "false") => task.status = FAILED

\* the save of the transcription details failed after the transcript was
\* saved, and process_task has returned
C39_Witness ==
    /\ pc = "done"
    /\ faults = {"save_details"}
    /\ runs = 1
    /\ transcriptions # <<>>
    /\ transcription_details = <<>>
    /\ task.status = FAILED

\* C40: for every text and every positive limit _split_transcript returns at
\* least one chunk, and when the text is longer than the limit no chunk
\* returned is the empty string.
C40_NoEmptyChunk ==
    returned # <<>> =>
        /\ Len(returned[1]) >= 1
        /\ Len(args.transcript) > args.max_chunk_size =>
               \A c \in 1..Len(returned[1]) : returned[1][c] # <<>>

====
